---- MODULE Spec2Model ----
(***************************************************************************)
(* Model of the joint NER/LID tagger of codemix:                           *)
(*   src/src/models/baseline/baseline.py  (class BaseLine)                 *)
(*   src/main.py                          (main)                           *)
(*                                                                         *)
(* Two specifications are given.                                           *)
(*   SpecOpt : construction of BaseLine (by main or by a direct call),     *)
(*             configure_optimizers and the optimizer steps.               *)
(*   Spec    : one training_step / validation_step of a constructed model, *)
(*             statement by statement.                                     *)
(*                                                                         *)
(* Parameter names are strings, and `nd in n` is a substring test on them. *)
(* Scores (emissions, transitions) are integers.  A log-sum-exp of integer *)
(* scores is kept exactly, as the bag of its exponents (see LSE below).    *)
(***************************************************************************)
EXTENDS Integers, Sequences, FiniteSets, Bags, TLC

VARIABLES
    args,        \* main: the parsed command line
    ctor,        \* "none" | "ok" | "TypeError": outcome of BaseLine(...)
    caller,      \* "none" | "main" | "direct": who called BaseLine(...)
    hparams,     \* self.hparams after save_hyperparameters()
    modules,     \* child module name -> names of its parameters
    trainable,   \* parameters with requires_grad = True
    optimizer,   \* [built, ok, param_groups] returned by configure_optimizers
    updates,     \* parameter -> number of optimizer steps that changed it
    opt_steps,   \* number of optimizer steps taken
    pc,          \* position inside training_step / validation_step
    mode,        \* "train" | "val" | "none": the step being run
    batch,       \* the batch handed to the step
    crf,         \* task -> transition parameters of its CRF
    emissions,   \* what the forward call of this step returned
    used,        \* which emissions each loss / decode call consumed
    losses,      \* ner_loss, lid_loss, loss of this step
    paths,       \* ner_path, lid_path of this step
    metrics,     \* ner_metrics, lid_metrics of this step
    metric_args, \* num_classes / ignore_index handed to torchmetrics per task
    logged,      \* key -> value: everything self.log / self.log_dict emitted
    returned     \* the value the step returned

optvars  == <<args, ctor, caller, hparams, modules, trainable, optimizer, updates, opt_steps>>
stepvars == <<pc, mode, batch, crf, emissions, used, losses, paths, metrics, metric_args, logged, returned>>
vars     == <<args, ctor, caller, hparams, modules, trainable, optimizer, updates, opt_steps,
              pc, mode, batch, crf, emissions, used, losses, paths, metrics, metric_args,
              logged, returned>>

(***************************************************************************)
(* Bounds                                                                  *)
(***************************************************************************)
MaxLr    == 3    \* learning rates range over 1..MaxLr (units of the base step size)
MaxSteps == 2    \* optimizer steps modelled
MaxVocab == 2    \* len(label2id), len(lid2id) range over 1..MaxVocab
SeqLen   == 2    \* padded sequence length of a batch
BatchSize == 2   \* sequences per batch
MaxTok   == 1    \* token ids of real tokens range over 0..MaxTok
MaxTrans == 2    \* the CRF transition scores are 0 or MaxTrans

Tasks == {"ner", "lid"}
None  == "None"

(***************************************************************************)
(* Python helpers                                                          *)
(***************************************************************************)
\* `nd in n` for two strings
StrIn(nd, n) == \E i \in 1..(Len(n) - Len(nd) + 1) : SubSeq(n, i, i + Len(nd) - 1) = nd

\* len(d) of a dict / list kept as a set of ids
len(d) == Cardinality(d)

(***************************************************************************)
(* Parameters of the modules BaseLine.__init__ creates                     *)
(***************************************************************************)
\* names a pretrained transformer held as BaseModel.model may expose
BaseNameUniverse ==
    { "model.embeddings.word_embeddings.weight",
      "model.embeddings.LayerNorm.weight",
      "model.embeddings.LayerNorm.bias",
      "model.encoder.layer.0.output.dense.weight",
      "model.encoder.layer.0.output.dense.bias" }

\* nn.LSTM(..., bidirectional=True), one layer
LSTMNames ==
    { "weight_ih_l0", "weight_hh_l0", "bias_ih_l0", "bias_hh_l0",
      "weight_ih_l0_reverse", "weight_hh_l0_reverse",
      "bias_ih_l0_reverse", "bias_hh_l0_reverse" }

\* nn.Sequential(Linear, LeakyReLU, Linear, LeakyReLU, Linear)
SequentialNames == { "0.weight", "0.bias", "2.weight", "2.bias", "4.weight", "4.bias" }

\* torchcrf.CRF
CRFNames == { "start_transitions", "end_transitions", "transitions" }

Children == <<"base_model", "bi_lstm", "ner_net", "ner_crf", "lid_net", "lid_crf">>
ChildSet == { Children[i] : i \in 1..Len(Children) }

\* module.named_parameters(): pairs <<name, tensor>>; a tensor is identified by
\* its path from the BaseLine instance
named_parameters(m) ==
    IF m = "self"
    THEN UNION { { <<c \o "." \o n, c \o "." \o n>> : n \in modules[c] } : c \in ChildSet }
    ELSE { <<n, m \o "." \o n>> : n \in modules[m] }

AllParams == { np[2] : np \in named_parameters("self") }
ParamsOf(m) == { np[2] : np \in named_parameters(m) }

(***************************************************************************)
(* main and BaseLine.__init__                                              *)
(***************************************************************************)
\* keyword arguments main passes to BaseLine
MainKwargs ==
    { "model_name", "max_seq_len", "padding", "learning_rate", "ner_learning_rate",
      "lid_learning_rate", "warm_restart_epochs", "weight_decay", "ner_wd", "lid_wd",
      "dropout_rate", "freeze" }

\* parameters BaseLine.__init__ declares
InitParams ==
    { "model_name", "max_seq_len", "padding", "label2id", "lid2id", "learning_rate",
      "ner_learning_rate", "lid_learning_rate", "weight_decay", "dropout_rate" }

\* keyword arguments of a direct call BaseLine(model_name=..., learning_rate=..., ...)
DirectKwargs ==
    { "model_name", "label2id", "lid2id", "learning_rate", "ner_learning_rate",
      "lid_learning_rate", "weight_decay" }

WEIGHT_DECAY == 1   \* config.WEIGHT_DECAY, a positive decay (one unit)

Vocab(n) == 0..(n - 1)

NoModules == [c \in ChildSet |-> {}]
NoOptimizer == [built |-> FALSE, ok |-> FALSE, param_groups |-> <<>>]
NoHparams == [label2id |-> {}, lid2id |-> {}, learning_rate |-> 0, ner_learning_rate |-> 0,
              lid_learning_rate |-> 0, weight_decay |-> 0]

\* self.save_hyperparameters(): the arguments of __init__
HparamsOf(lr, ner_lr, lid_lr, nl, ll) ==
    [label2id |-> Vocab(nl), lid2id |-> Vocab(ll),
     learning_rate |-> lr, ner_learning_rate |-> ner_lr,
     lid_learning_rate |-> lid_lr, weight_decay |-> WEIGHT_DECAY]

\* the six children __init__ creates, with the names of their parameters
ModulesOf(base_names) ==
    [c \in ChildSet |->
        CASE c = "base_model" -> base_names
          [] c = "bi_lstm"    -> LSTMNames
          [] c \in {"ner_net", "lid_net"} -> SequentialNames
          [] OTHER -> CRFNames]

\* every parameter is created with requires_grad = True; __init__ freezes none
TrainableOf(mods) == UNION { { c \o "." \o n : n \in mods[c] } : c \in ChildSet }

\* the body of __init__
InitBody(base_names, nl, ll) ==
    /\ hparams' = HparamsOf(args.lr, args.ner_lr, args.lid_lr, nl, ll)
    /\ modules' = ModulesOf(base_names)
    /\ trainable' = TrainableOf(modules')
    /\ updates' = [p \in trainable' |-> 0]

\* BaseLine(**kwargs): Python raises TypeError for a keyword __init__ does not declare
Construct(who, kwargs, base_names, nl, ll) ==
    /\ ctor = "none"
    /\ caller' = who
    /\ IF kwargs \subseteq InitParams
       THEN /\ ctor' = "ok"
            /\ InitBody(base_names, nl, ll)
       ELSE /\ ctor' = "TypeError"
            /\ UNCHANGED <<hparams, modules, trainable, updates>>
    /\ UNCHANGED <<args, optimizer, opt_steps>>
    /\ UNCHANGED stepvars

\* main(args): model = BaseLine(model_name=..., ..., freeze=freeze)
MainConstruct ==
    \E base_names \in (SUBSET BaseNameUniverse) \ {{}} :
        Construct("main", MainKwargs, base_names, MaxVocab, MaxVocab)

\* a caller that passes only declared keywords
DirectConstruct ==
    \E base_names \in (SUBSET BaseNameUniverse) \ {{}} :
        Construct("direct", DirectKwargs, base_names, MaxVocab, MaxVocab)

(***************************************************************************)
(* configure_optimizers                                                    *)
(***************************************************************************)
no_decay == {"bias", "LayerNorm.weight"}

AnyNoDecay(n) == \E nd \in no_decay : StrIn(nd, n)

\* the comprehension without its `if not any(...)` filter
DecayParams_unfiltered(m) == { np[2] : np \in named_parameters(m) }

\* [p for n, p in m.named_parameters() if not any(nd in n for nd in no_decay)]
DecayParams(m) == { np[2] : np \in { q \in named_parameters(m) : ~AnyNoDecay(q[1]) } }

\* [p for n, p in self.named_parameters() if any(nd in n for nd in no_decay)]
NoDecayParams == { np[2] : np \in { q \in named_parameters("self") : AnyNoDecay(q[1]) } }

\* the grouping with the two task learning rates exchanged
optimizer_grouped_parameters_swapped ==
    << [params |-> DecayParams("base_model")],
       [params |-> DecayParams("bi_lstm")],
       [params |-> DecayParams("ner_net"), lr |-> hparams.lid_learning_rate],
       [params |-> DecayParams("lid_net"), lr |-> hparams.ner_learning_rate],
       [params |-> NoDecayParams, weight_decay |-> 0] >>

optimizer_grouped_parameters ==
    << [params |-> DecayParams("base_model")],
       [params |-> DecayParams("bi_lstm")],
       [params |-> DecayParams("ner_net"), lr |-> hparams.ner_learning_rate],
       [params |-> DecayParams("lid_net"), lr |-> hparams.lid_learning_rate],
       [params |-> NoDecayParams, weight_decay |-> 0] >>

\* torch.optim.AdamW(params, lr, weight_decay): defaults fill the keys a group
\* leaves out; a tensor in two groups is a ValueError
AdamW(groups, lr, weight_decay) ==
    LET filled == [i \in 1..Len(groups) |->
                     [params |-> groups[i].params,
                      lr |-> IF "lr" \in DOMAIN groups[i] THEN groups[i].lr ELSE lr,
                      weight_decay |-> IF "weight_decay" \in DOMAIN groups[i]
                                       THEN groups[i].weight_decay ELSE weight_decay]]
        clash == \E i, j \in 1..Len(groups) : i # j /\ groups[i].params \cap groups[j].params # {}
    IN  [built |-> TRUE, ok |-> ~clash, param_groups |-> filled]

configure_optimizers ==
    /\ ctor = "ok"
    /\ ~optimizer.built
    /\ optimizer' = AdamW(optimizer_grouped_parameters, hparams.learning_rate, hparams.weight_decay)
    /\ UNCHANGED <<args, ctor, caller, hparams, modules, trainable, updates, opt_steps>>
    /\ UNCHANGED stepvars

GroupParams == UNION { optimizer.param_groups[i].params : i \in 1..Len(optimizer.param_groups) }

\* optimizer.step() after a backward pass: every tensor of every group that
\* requires a gradient is changed, no other tensor is
OptimizerStep ==
    /\ optimizer.built /\ optimizer.ok
    /\ opt_steps < MaxSteps
    /\ opt_steps' = opt_steps + 1
    /\ updates' = [p \in DOMAIN updates |->
                     IF p \in GroupParams /\ p \in trainable THEN updates[p] + 1 ELSE updates[p]]
    /\ UNCHANGED <<args, ctor, caller, hparams, modules, trainable, optimizer>>
    /\ UNCHANGED stepvars

(***************************************************************************)
(* Properties of the optimizer (checked under SpecOpt)                     *)
(***************************************************************************)
Groups == optimizer.param_groups
GroupsOf(p) == { i \in 1..Len(Groups) : p \in Groups[i].params }
FullNameOf(p) == CHOOSE np \in named_parameters("self") : np[2] = p
IsNoDecayName(p) == StrIn("bias", FullNameOf(p)[1]) \/ StrIn("LayerNorm.weight", FullNameOf(p)[1])
IsBiasParam(p) == StrIn("bias", FullNameOf(p)[1])

\* C1: configure_optimizers builds one AdamW optimizer of five pairwise
\* disjoint parameter groups; every parameter whose name contains "bias" or
\* "LayerNorm.weight" is in the fifth group, which has weight decay 0 and the
\* base learning rate, and in none of the first four.
C1_NoDecayGroup ==
    optimizer.built =>
        /\ optimizer.ok
        /\ Len(Groups) = 5
        /\ \A i, j \in 1..Len(Groups) : i # j => Groups[i].params \cap Groups[j].params = {}
        /\ Groups[5].weight_decay = 0
        /\ Groups[5].lr = hparams.learning_rate
        /\ \A p \in AllParams : IsNoDecayName(p) => GroupsOf(p) = {5}

\* C1 witness: an optimizer built for a model whose transformer has a bias, a
\* LayerNorm.weight and a decayed weight
C1_Witness ==
    /\ optimizer.built
    /\ "base_model.model.embeddings.LayerNorm.weight" \in Groups[5].params
    /\ "base_model.model.encoder.layer.0.output.dense.bias" \in Groups[5].params
    /\ "bi_lstm.bias_hh_l0_reverse" \in Groups[5].params
    /\ "base_model.model.embeddings.word_embeddings.weight" \in Groups[1].params

\* C2 (as claimed): every trainable parameter, the CRF transition parameters of
\* ner_crf and lid_crf included, belongs to exactly one parameter group and is
\* changed by every optimizer step.
C2_EveryParameterOptimized ==
    optimizer.built =>
        \A p \in trainable :
            /\ Cardinality(GroupsOf(p)) = 1
            /\ updates[p] = opt_steps

\* C7 (as claimed): every parameter of ner_net gets the NER learning rate and
\* every parameter of lid_net the LID learning rate.
C7_AllHeadParamsTaskRate ==
    (optimizer.built /\ hparams.ner_learning_rate # hparams.learning_rate
                     /\ hparams.lid_learning_rate # hparams.learning_rate) =>
        /\ \A p \in ParamsOf("ner_net") :
               \E i \in GroupsOf(p) : Groups[i].lr = hparams.ner_learning_rate
        /\ \A p \in ParamsOf("lid_net") :
               \E i \in GroupsOf(p) : Groups[i].lr = hparams.lid_learning_rate

\* C7 (amended): the weights (names without "bias") of ner_net are in the third
\* group at the NER learning rate, those of lid_net in the fourth at the LID
\* learning rate; the biases of both heads are in the fifth group at the base
\* learning rate.
C7_HeadWeightsTaskRate ==
    optimizer.built =>
        /\ Groups[3].lr = hparams.ner_learning_rate
        /\ Groups[4].lr = hparams.lid_learning_rate
        /\ \A p \in ParamsOf("ner_net") :
               GroupsOf(p) = IF IsBiasParam(p) THEN {5} ELSE {3}
        /\ \A p \in ParamsOf("lid_net") :
               GroupsOf(p) = IF IsBiasParam(p) THEN {5} ELSE {4}
        /\ Groups[5].lr = hparams.learning_rate

\* C7 witness: an optimizer built with three different learning rates
C7_Witness ==
    /\ optimizer.built
    /\ hparams.ner_learning_rate # hparams.learning_rate
    /\ hparams.lid_learning_rate # hparams.learning_rate
    /\ hparams.ner_learning_rate # hparams.lid_learning_rate
    /\ "ner_net.4.weight" \in Groups[3].params

\* C8 (as claimed): with the freeze flag set by main, construction succeeds, no
\* optimizer step changes a transformer parameter, and the recurrent layer, the
\* heads and the decoders are all changed by every step.
C8_FreezeHonoured ==
    (caller = "main" /\ args.freeze = "freeze") =>
        /\ ctor = "ok"
        /\ \A p \in ParamsOf("base_model") : updates[p] = 0
        /\ \A p \in AllParams \ ParamsOf("base_model") : updates[p] = opt_steps

(***************************************************************************)
(* Specification of construction and optimisation                          *)
(***************************************************************************)
StepIdle ==
    /\ pc = "idle" /\ mode = "none" /\ batch = <<>> /\ crf = <<>>
    /\ emissions = <<>> /\ used = <<>> /\ losses = <<>> /\ paths = <<>>
    /\ metrics = <<>> /\ metric_args = <<>> /\ logged = <<>> /\ returned = [none |-> TRUE, value |-> [pos |-> EmptyBag, neg |-> EmptyBag]]

InitOpt ==
    /\ args \in [freeze : {"freeze", "unfreeze"}, lr : 1..MaxLr, ner_lr : 1..MaxLr, lid_lr : 1..MaxLr]
    /\ ctor = "none" /\ caller = "none"
    /\ hparams = NoHparams
    /\ modules = NoModules
    /\ trainable = {}
    /\ optimizer = NoOptimizer
    /\ updates = <<>>
    /\ opt_steps = 0
    /\ StepIdle

NextOpt == MainConstruct \/ DirectConstruct \/ configure_optimizers \/ OptimizerStep

SpecOpt == InitOpt /\ [][NextOpt]_vars

(***************************************************************************)
(* Exact arithmetic for losses                                             *)
(*                                                                         *)
(* LSE: a bag B of integers stands for log(sum of e^x over the x of B),    *)
(* the value torch.logsumexp computes; a score x is the bag {x}.  Bag      *)
(* union is logsumexp of two such values, Shift adds a score.              *)
(* LogNum: [pos, neg], two bags of LSE bags, stands for the sum of the     *)
(* values of pos minus the sum of the values of neg.                       *)
(***************************************************************************)
Shift(B, k) == [e \in { x + k : x \in DOMAIN B } |-> B[e - k]]

RECURSIVE SumBags(_)
SumBags(bs) == IF bs = <<>> THEN EmptyBag ELSE bs[1] (+) SumBags(Tail(bs))

Zero == [pos |-> EmptyBag, neg |-> EmptyBag]
Neg(v) == [pos |-> v.neg, neg |-> v.pos]
Add(a, b) == [pos |-> a.pos (+) b.pos, neg |-> a.neg (+) b.neg]

(***************************************************************************)
(* torchcrf.CRF, as BaseLine uses it                                       *)
(***************************************************************************)
TagsOf(num_tags) == 0..(num_tags - 1)

\* CRF(num_tags): transition matrix, start and end scores
CRF(num_tags, d) ==
    [num_tags |-> num_tags,
     start_transitions |-> [k \in TagsOf(num_tags) |-> 0],
     end_transitions |-> [k \in TagsOf(num_tags) |-> IF k = 0 THEN d ELSE 0],
     transitions |-> [i \in TagsOf(num_tags) |->
                        [j \in TagsOf(num_tags) |-> IF i = j THEN d ELSE 0]]]

SumMask(mask) == Cardinality({ t \in 1..Len(mask) : mask[t] = 1 })

\* CRF._compute_score for one sequence
compute_score(c, em, tags, mask) ==
    LET sc[t \in 1..Len(em)] ==
            IF t = 1 THEN c.start_transitions[tags[1]] + em[1][tags[1]]
            ELSE sc[t - 1] + c.transitions[tags[t - 1]][tags[t]] * mask[t]
                           + em[t][tags[t]] * mask[t]
        seq_end == SumMask(mask)
    IN  sc[Len(em)] + c.end_transitions[tags[seq_end]]

\* a tensor: the function f with every entry computed once
Tensor(f) == f @@ <<>>

\* CRF._compute_normalizer for one sequence: the forward algorithm
RECURSIVE normalizer_from(_, _, _, _, _)
normalizer_from(c, em, mask, t, score) ==
    IF t > Len(em)
    THEN SumBags([j \in 1..c.num_tags |-> Shift(score[j - 1], c.end_transitions[j - 1])])
    ELSE LET next_score ==
                 Tensor([j \in TagsOf(c.num_tags) |->
                     SumBags([i \in 1..c.num_tags |->
                                Shift(score[i - 1], c.transitions[i - 1][j] + em[t][j])])])
         IN  normalizer_from(c, em, mask, t + 1, IF mask[t] = 1 THEN next_score ELSE score)

compute_normalizer(c, em, mask) ==
    normalizer_from(c, em, mask, 2,
        Tensor([j \in TagsOf(c.num_tags) |-> SetToBag({c.start_transitions[j] + em[1][j]})]))

\* CRF.forward(emissions, tags, mask), reduction "sum": the log likelihood of
\* the batch
CRF_forward(c, ems, tags, mask) ==
    [pos |-> EmptyBag,
     neg |-> SumBags([b \in 1..Len(ems) |->
                SetToBag({ Shift(compute_normalizer(c, ems[b], mask[b]),
                                 0 - compute_score(c, ems[b], tags[b], mask[b])) })])]

\* torch.max(dim): the index of the first maximal value
ArgMax(f, S) == CHOOSE i \in S : \A j \in S : f[i] > f[j] \/ (f[i] = f[j] /\ i <= j)

\* CRF._viterbi_decode for one sequence: the scores after the last position and
\* the history of best previous tags, one entry per position from the second on
RECURSIVE viterbi_from(_, _, _, _, _, _)
viterbi_from(c, em, mask, t, score, history) ==
    IF t > Len(em)
    THEN [score |-> [j \in TagsOf(c.num_tags) |-> score[j] + c.end_transitions[j]],
          history |-> history]
    ELSE LET T == TagsOf(c.num_tags)
             next_score == Tensor([j \in T |-> [i \in T |->
                               score[i] + c.transitions[i][j] + em[t][j]]])
             indices == Tensor([j \in T |-> ArgMax(next_score[j], T)])
             best == Tensor([j \in T |-> next_score[j][indices[j]]])
         IN  viterbi_from(c, em, mask, t + 1, IF mask[t] = 1 THEN best ELSE score,
                          Append(history, indices))

viterbi_decode(c, em, mask) ==
    LET T == TagsOf(c.num_tags)
        r == viterbi_from(c, em, mask, 2,
                          Tensor([j \in T |-> c.start_transitions[j] + em[1][j]]), <<>>)
        n == SumMask(mask)
        \* history[t - 1] leads from position t back to position t - 1
        tag[t \in 1..n] == IF t = n THEN ArgMax(r.score, T) ELSE r.history[t][tag[t + 1]]
    IN  [t \in 1..n |-> tag[t]]

Ones(mask) == [b \in 1..Len(mask) |-> [t \in 1..Len(mask[b]) |-> 1]]

\* CRF.decode(emissions, mask=None): without a mask every position counts
CRF_decode(c, ems, mask) ==
    LET m == IF mask = None THEN Ones(ems) ELSE mask
    IN  [b \in 1..Len(ems) |-> viterbi_decode(c, ems[b], m[b])]

(***************************************************************************)
(* forward                                                                 *)
(***************************************************************************)
PadTok == MaxTok + 1
NumFeat == MaxTok + 2

\* base_model followed by bi_lstm: one feature per position; at a real
\* position the token, at a padded position what the recurrence carries there
lstm_outs(ids, mask) ==
    LET f[t \in 1..Len(ids)] ==
            IF mask[t] = 1 THEN ids[t] ELSE (f[t - 1] + 1) % NumFeat
    IN  [t \in 1..Len(ids) |-> f[t]]

\* ner_net / lid_net: one emission row per feature, over the task's tags
ner_net(f, num_tags) == [k \in TagsOf(num_tags) |-> IF k = f % num_tags THEN f + 1 ELSE 0]
lid_net(f, num_tags) == [k \in TagsOf(num_tags) |-> IF k = (f + 1) % num_tags THEN 1 ELSE 0]

forward(input_ids, attention_mask) ==
    LET outs == [b \in 1..Len(input_ids) |-> lstm_outs(input_ids[b], attention_mask[b])]
    IN  [ner |-> [head |-> "ner_net",
                  scores |-> [b \in 1..Len(outs) |-> [t \in 1..Len(outs[b]) |->
                                 ner_net(outs[b][t], len(hparams.label2id) + 1)]]],
         lid |-> [head |-> "lid_net",
                  scores |-> [b \in 1..Len(outs) |-> [t \in 1..Len(outs[b]) |->
                                 lid_net(outs[b][t], len(hparams.lid2id) + 1)]]]]

(***************************************************************************)
(* Batches the data module supplies                                        *)
(***************************************************************************)
\* a batch of BatchSize sequences padded to SeqLen: a contiguous prefix of real
\* tokens, gold tags at the real positions, len(vocab) at the padded ones
MkBatch(lens, toks, shift) ==
    [input_ids |-> [b \in 1..BatchSize |-> [t \in 1..SeqLen |->
                       IF t <= lens[b] THEN toks[b][t] ELSE PadTok]],
     attention_mask |-> [b \in 1..BatchSize |-> [t \in 1..SeqLen |->
                       IF t <= lens[b] THEN 1 ELSE 0]],
     labels |-> [b \in 1..BatchSize |-> [t \in 1..SeqLen |->
                       IF t <= lens[b] THEN (toks[b][t] + shift) % len(hparams.label2id)
                       ELSE len(hparams.label2id)]],
     lids |-> [b \in 1..BatchSize |-> [t \in 1..SeqLen |->
                       IF t <= lens[b] THEN (toks[b][t] + shift) % len(hparams.lid2id)
                       ELSE len(hparams.lid2id)]]]

\* the batches drawn: the first sequence is any sequence of 1..SeqLen real
\* tokens; each further sequence is one token longer than the one before it
\* (wrapping to length 1 after SeqLen) with tokens moved on by one, so that a
\* batch mixes lengths
Batches ==
    { MkBatch([b \in 1..BatchSize |-> ((n + b - 2) % SeqLen) + 1],
              [b \in 1..BatchSize |-> [t \in 1..SeqLen |-> (first[t] + b - 1) % (MaxTok + 1)]],
              shift) :
        n \in 1..SeqLen,
        first \in [1..SeqLen -> 0..MaxTok],
        shift \in 0..1 }

(***************************************************************************)
(* torchmetrics.functional precision / recall / f1_score, called with      *)
(* average="macro", num_classes and ignore_index and no `task` argument    *)
(***************************************************************************)
RECURSIVE GCD(_, _)
GCD(a, b) == IF b = 0 THEN a ELSE GCD(b, a % b)

\* a rational in lowest terms
Frac(n, d) == IF n = 0 THEN [num |-> 0, den |-> 1]
              ELSE [num |-> n \div GCD(n, d), den |-> d \div GCD(n, d)]
FAdd(x, y) == Frac(x.num * y.den + y.num * x.den, x.den * y.den)

RECURSIVE FSum(_)
FSum(fs) == IF fs = <<>> THEN Frac(0, 1) ELSE FAdd(fs[1], FSum(Tail(fs)))

\* x.reshape(-1, 1): the rows of a batch one after the other
RECURSIVE Flatten(_)
Flatten(rows) == IF rows = <<>> THEN <<>> ELSE rows[1] \o Flatten(Tail(rows))

Count(S) == Cardinality(S)
TP(p, t, c) == Count({ i \in 1..Len(p) : p[i] = c /\ t[i] = c })
FP(p, t, c) == Count({ i \in 1..Len(p) : p[i] = c /\ t[i] # c })
FN(p, t, c) == Count({ i \in 1..Len(p) : p[i] # c /\ t[i] = c })

\* the inputs torchmetrics rejects with a ValueError
StatScoresRaises(p, t, num_classes, ignore_index) ==
    \/ ignore_index >= num_classes
    \/ \E i \in 1..Len(p) : p[i] >= num_classes \/ t[i] >= num_classes

\* the classes that enter the macro average: the ignored class is left out,
\* and so is a class that occurs neither in preds nor in target
Averaged(p, t, num_classes, ignore_index) ==
    { c \in 0..(num_classes - 1) :
        c # ignore_index /\ TP(p, t, c) + FP(p, t, c) + FN(p, t, c) # 0 }

\* the macro average of num(c) / den(c), a class with den(c) = 0 scoring 0
MacroAverage(num, den, classes) ==
    LET cs == CHOOSE s \in [1..Cardinality(classes) -> classes] :
                  \A i, j \in 1..Cardinality(classes) : i < j => s[i] < s[j]
        total == FSum([i \in 1..Len(cs) |->
                         IF den[cs[i]] = 0 THEN Frac(0, 1) ELSE Frac(num[cs[i]], den[cs[i]])])
    IN  IF classes = {} THEN Frac(0, 1)
        ELSE Frac(total.num, total.den * Cardinality(classes))

precision(p, t, num_classes, ignore_index) ==
    LET n == [c \in 0..(num_classes - 1) |-> TP(p, t, c)]
        d == [c \in 0..(num_classes - 1) |-> TP(p, t, c) + FP(p, t, c)]
    IN  MacroAverage(n, d, Averaged(p, t, num_classes, ignore_index))

recall(p, t, num_classes, ignore_index) ==
    LET n == [c \in 0..(num_classes - 1) |-> TP(p, t, c)]
        d == [c \in 0..(num_classes - 1) |-> TP(p, t, c) + FN(p, t, c)]
    IN  MacroAverage(n, d, Averaged(p, t, num_classes, ignore_index))

f1_score(p, t, num_classes, ignore_index) ==
    LET n == [c \in 0..(num_classes - 1) |-> 2 * TP(p, t, c)]
        d == [c \in 0..(num_classes - 1) |-> 2 * TP(p, t, c) + FP(p, t, c) + FN(p, t, c)]
    IN  MacroAverage(n, d, Averaged(p, t, num_classes, ignore_index))

(***************************************************************************)
(* BaseLine._compute_metrics                                               *)
(***************************************************************************)
lid_pad_token_label == len(hparams.lid2id)
ner_pad_token_label == len(hparams.label2id)

\* the num_classes and ignore_index each branch hands to torchmetrics
MetricArgs(task) ==
    IF task = "ner"
    THEN [num_classes |-> len(hparams.label2id) + 1, ignore_index |-> ner_pad_token_label]
    ELSE [num_classes |-> len(hparams.label2id) + 1, ignore_index |-> lid_pad_token_label]

\* f"{metric}/{mode}-{task}"
MetricKey(metric, m, task) == metric \o "/" \o m \o "-" \o task

\* the dictionary of the three metrics over flattened preds and targets
MetricsDict(p, t, m, task, a) ==
    (MetricKey("prec", m, task) :> precision(p, t, a.num_classes, a.ignore_index))
    @@ (MetricKey("rec", m, task) :> recall(p, t, a.num_classes, a.ignore_index))
    @@ (MetricKey("f1", m, task) :> f1_score(p, t, a.num_classes, a.ignore_index))

compute_metrics(preds, targets, m, task) ==
    LET p == Flatten(preds)
        t == Flatten(targets)
        a == MetricArgs(task)
    IN  IF StatScoresRaises(p, t, a.num_classes, a.ignore_index)
        THEN [ok |-> FALSE, args |-> a, dict |-> <<>>]
        ELSE [ok |-> TRUE, args |-> a, dict |-> MetricsDict(p, t, m, task, a)]

(***************************************************************************)
(* training_step and validation_step, statement by statement               *)
(***************************************************************************)
\* the emissions handed to the two CRF.forward calls
LossInputs == [ner |-> emissions.ner, lid |-> emissions.lid]

\* the emissions handed to the two CRF.decode calls
DecodeInputs == [ner |-> emissions.ner, lid |-> emissions.lid]

\* the sum with the LID loss left out
TotalLoss_nerOnly(ner_loss, lid_loss) == ner_loss

\* loss = ner_loss + lid_loss
TotalLoss(ner_loss, lid_loss) == Add(ner_loss, lid_loss)

\* the keys of the three self.log calls
LossKeys(m) == [loss |-> "loss/" \o m, ner_loss |-> "loss-ner/" \o m, lid_loss |-> "loss-lid/" \o m]

\* ner_emissions, lid_emissions = self(input_ids, attention_mask)
StepForward(m) ==
    /\ pc = "idle" /\ ctor = "ok"
    /\ \E b \in Batches :
          /\ batch' = b
          /\ emissions' = forward(b.input_ids, b.attention_mask)
    /\ mode' = m
    /\ pc' = "loss"
    /\ UNCHANGED <<crf, used, losses, paths, metrics, metric_args, logged, returned>>
    /\ UNCHANGED optvars

\* ner_loss = -self.ner_crf(...); lid_loss = -self.lid_crf(...)
StepLoss(m) ==
    /\ pc = "loss" /\ mode = m
    /\ losses' = [ner_loss |-> Neg(CRF_forward(crf.ner, LossInputs.ner.scores,
                                               batch.labels, batch.attention_mask)),
                  lid_loss |-> Neg(CRF_forward(crf.lid, LossInputs.lid.scores,
                                               batch.lids, batch.attention_mask))]
    /\ used' = [ner_loss |-> LossInputs.ner, lid_loss |-> LossInputs.lid]
    /\ pc' = "decode"
    /\ UNCHANGED <<mode, batch, crf, emissions, paths, metrics, metric_args, logged, returned>>
    /\ UNCHANGED optvars

\* ner_path = self.ner_crf.decode(ner_emissions); lid_path likewise; then the
\* sum of the two losses
StepDecode(m) ==
    /\ pc = "decode" /\ mode = m
    /\ paths' = [ner_path |-> CRF_decode(crf.ner, DecodeInputs.ner.scores, None),
                 lid_path |-> CRF_decode(crf.lid, DecodeInputs.lid.scores, None)]
    /\ used' = used @@ [ner_decode |-> DecodeInputs.ner, lid_decode |-> DecodeInputs.lid]
    /\ losses' = losses @@ [loss |-> TotalLoss(losses.ner_loss, losses.lid_loss)]
    /\ pc' = "metrics"
    /\ UNCHANGED <<mode, batch, crf, emissions, metrics, metric_args, logged, returned>>
    /\ UNCHANGED optvars

\* ner_metrics = self._compute_metrics(ner_path, labels, mode, "ner"), then the
\* same for lid; a ValueError of torchmetrics ends the step
StepMetrics(m) ==
    /\ pc = "metrics" /\ mode = m
    /\ LET nm == compute_metrics(paths.ner_path, batch.labels, m, "ner")
           lm == compute_metrics(paths.lid_path, batch.lids, m, "lid")
       IN  /\ metric_args' = IF nm.ok THEN [ner |-> nm.args, lid |-> lm.args]
                             ELSE [ner |-> nm.args]
           /\ metrics' = IF nm.ok /\ lm.ok THEN [ner |-> nm.dict, lid |-> lm.dict]
                         ELSE IF nm.ok THEN [ner |-> nm.dict] ELSE <<>>
           /\ pc' = IF nm.ok /\ lm.ok THEN "log" ELSE "ValueError"
    /\ UNCHANGED <<mode, batch, crf, emissions, used, losses, paths, logged, returned>>
    /\ UNCHANGED optvars

\* the three self.log calls, the two self.log_dict calls and the return
StepLog(m) ==
    /\ pc = "log" /\ mode = m
    /\ logged' = (LossKeys(m).loss :> losses.loss)
                 @@ (LossKeys(m).ner_loss :> losses.ner_loss)
                 @@ (LossKeys(m).lid_loss :> losses.lid_loss)
                 @@ metrics.ner @@ metrics.lid
    /\ returned' = IF m = "train" THEN [none |-> FALSE, value |-> losses.loss]
                   ELSE [none |-> TRUE, value |-> Zero]
    /\ pc' = "done"
    /\ UNCHANGED <<mode, batch, crf, emissions, used, losses, paths, metrics, metric_args>>
    /\ UNCHANGED optvars

training_step ==
    \/ StepForward("train") \/ StepLoss("train") \/ StepDecode("train")
    \/ StepMetrics("train") \/ StepLog("train")

validation_step ==
    \/ StepForward("val") \/ StepLoss("val") \/ StepDecode("val")
    \/ StepMetrics("val") \/ StepLog("val")

NotReturned == [none |-> TRUE, value |-> Zero]

\* the trainer moves on to the next batch: nothing of a step is retained
NextBatch ==
    /\ pc \in {"done", "ValueError"}
    /\ pc' = "idle" /\ mode' = "none" /\ batch' = <<>>
    /\ emissions' = <<>> /\ used' = <<>> /\ losses' = <<>> /\ paths' = <<>>
    /\ metrics' = <<>> /\ metric_args' = <<>> /\ logged' = <<>> /\ returned' = NotReturned
    /\ UNCHANGED crf
    /\ UNCHANGED optvars

(***************************************************************************)
(* Specification of the steps of a constructed model                       *)
(***************************************************************************)
Init ==
    /\ args = [freeze |-> "unfreeze", lr |-> 1, ner_lr |-> 1, lid_lr |-> 1]
    /\ ctor = "ok" /\ caller = "direct"
    /\ \E nl \in 1..MaxVocab, ll \in 1..MaxVocab :
          hparams = HparamsOf(args.lr, args.ner_lr, args.lid_lr, nl, ll)
    /\ modules = ModulesOf(BaseNameUniverse)
    /\ trainable = TrainableOf(modules)
    /\ optimizer = NoOptimizer
    /\ updates = [p \in trainable |-> 0]
    /\ opt_steps = 0
    /\ \E d \in {0, MaxTrans} :
          crf = [ner |-> CRF(len(hparams.label2id) + 1, d),
                 lid |-> CRF(len(hparams.lid2id) + 1, d)]
    /\ pc = "idle" /\ mode = "none" /\ batch = <<>>
    /\ emissions = <<>> /\ used = <<>> /\ losses = <<>> /\ paths = <<>>
    /\ metrics = <<>> /\ metric_args = <<>> /\ logged = <<>> /\ returned = NotReturned

Next == training_step \/ validation_step \/ NextBatch

Spec == Init /\ [][Next]_vars

(***************************************************************************)
(* Properties of a step (checked under Spec)                               *)
(***************************************************************************)
RealLen(b) == SumMask(batch.attention_mask[b])
Decoded == "ner_path" \in DOMAIN paths
HasPadding == \E b \in 1..BatchSize : RealLen(b) < SeqLen

\* the real positions of every row, flattened
FlattenReal(rows) == Flatten([b \in 1..Len(rows) |-> SubSeq(rows[b], 1, RealLen(b))])

\* one sequence cut down to its real positions
Unpadded(row, b) == SubSeq(row, 1, RealLen(b))
AllReal(b) == [t \in 1..RealLen(b) |-> 1]

\* the negative log likelihood of one sequence
SeqNLL(c, em, tags, mask) == Shift(compute_normalizer(c, em, mask), 0 - compute_score(c, em, tags, mask))

\* C3 (as claimed): for each task and each sequence of the batch, the decoded
\* path holds exactly one tag per real (attention_mask = 1) position and none
\* for the padded positions.
C3_PathPerRealPosition ==
    Decoded =>
        \A b \in 1..BatchSize :
            /\ Len(paths.ner_path[b]) = RealLen(b)
            /\ Len(paths.lid_path[b]) = RealLen(b)

\* C4 (as claimed): the padded positions appended to a sequence change neither
\* its negative log likelihood nor the tags the step's decode gives its real
\* positions: both equal what the sequence without its padding yields.
C4_MaskingIdempotence ==
    Decoded =>
        \A b \in 1..BatchSize :
            /\ SeqNLL(crf.ner, emissions.ner.scores[b], batch.labels[b], batch.attention_mask[b])
                 = SeqNLL(crf.ner, Unpadded(emissions.ner.scores[b], b),
                          Unpadded(batch.labels[b], b), AllReal(b))
            /\ SeqNLL(crf.lid, emissions.lid.scores[b], batch.lids[b], batch.attention_mask[b])
                 = SeqNLL(crf.lid, Unpadded(emissions.lid.scores[b], b),
                          Unpadded(batch.lids[b], b), AllReal(b))
            /\ Unpadded(paths.ner_path[b], b)
                 = viterbi_decode(crf.ner, Unpadded(emissions.ner.scores[b], b), AllReal(b))
            /\ Unpadded(paths.lid_path[b], b)
                 = viterbi_decode(crf.lid, Unpadded(emissions.lid.scores[b], b), AllReal(b))

\* C5 (as claimed): every emitted scalar of a task (loss, prec, rec, f1 of ner
\* and of lid) is named <metric>/<split>-<task>, the combined loss
\* <metric>/<split>, and every validation step emits f1/val-ner.
C5_NamingConvention ==
    /\ pc = "done" =>
          DOMAIN logged = { MetricKey(metric, mode, task) :
                              metric \in {"loss", "prec", "rec", "f1"}, task \in Tasks }
                          \cup { "loss/" \o mode }
    /\ (mode = "val" /\ pc \in {"done", "ValueError"}) => "f1/val-ner" \in DOMAIN logged

\* C6 (as claimed): with the ignore id as gold tag at every padded position,
\* the precision, recall and F1 of a task equal those computed over the real
\* positions alone, whatever was predicted at the padded positions.
C6_PaddingExcluded ==
    /\ "ner" \in DOMAIN metrics =>
          metrics.ner = MetricsDict(FlattenReal(paths.ner_path), FlattenReal(batch.labels),
                                    mode, "ner", metric_args.ner)
    /\ "lid" \in DOMAIN metrics =>
          metrics.lid = MetricsDict(FlattenReal(paths.lid_path), FlattenReal(batch.lids),
                                    mode, "lid", metric_args.lid)

\* C9 (as claimed): the number of classes handed to precision, recall and F1
\* is the size of the task's own vocabulary plus one, and the ignored class is
\* the task's own pad id.
C9_OwnTagClasses ==
    /\ "ner" \in DOMAIN metric_args =>
          /\ metric_args.ner.num_classes = len(hparams.label2id) + 1
          /\ metric_args.ner.ignore_index = len(hparams.label2id)
    /\ "lid" \in DOMAIN metric_args =>
          /\ metric_args.lid.num_classes = len(hparams.lid2id) + 1
          /\ metric_args.lid.ignore_index = len(hparams.lid2id)

NLLIgnoresPadding ==
    Decoded =>
        \A b \in 1..BatchSize :
            SeqNLL(crf.ner, emissions.ner.scores[b], batch.labels[b], batch.attention_mask[b])
              = SeqNLL(crf.ner, Unpadded(emissions.ner.scores[b], b),
                       Unpadded(batch.labels[b], b), AllReal(b))

====
